---- MODULE Spec2Model ----
(***************************************************************************)
(* A model of the systemSleep repository: the sleep schedulers             *)
(* (linux_sleep.py, windows_sleep.py, systemSleep.py) and the keep-awake   *)
(* programs (linux_sleep.py --mode prevent, windows_prevent_sleep.py).     *)
(*                                                                         *)
(* One process is modelled.  pc is the position of the main path, hpc the  *)
(* position of the SIGINT handler invocation that is running (a handler    *)
(* always ends in sys.exit, so the code it interrupted never resumes), spc *)
(* the position inside linux_sleep.stop_sleep_prevention.  A countdown     *)
(* step is one time.sleep(1).                                              *)
(***************************************************************************)
EXTENDS Integers, Sequences, FiniteSets, TLC

VARIABLES
    prog,              \* which script runs
    args,              \* parsed command line (argparse namespace)
    config,            \* the script's section of config.json
    host,              \* what the machine offers: platform, launcher, API
    pc,                \* main path position
    hpc,               \* signal handler position, "none" when no handler runs
    spc,               \* position inside stop_sleep_prevention, "none" outside
    exiting,           \* code of the SystemExit that a finally block is holding
    exitCode,          \* <<>> while running, <<code>> once the process has ended
    handlerInstalled,  \* signal.signal(SIGINT, signal_handler) has run
    interrupts,        \* SIGINTs delivered so far
    wake_delay,        \* main's wake_delay
    delay_minutes,     \* the scheduler's pending delay
    cycle,             \* the scheduler's cycle number
    remaining,         \* seconds left of the running countdown
    sleepIssued,       \* sleep commands issued so far
    sleepOK,           \* sleep commands that returned success
    sleepFailed,       \* a sleep command has returned failure
    countdowns,        \* countdowns started so far
    prevent_process,   \* linux_sleep's global handle slot: 0 is None, else an index
    inhibitors,        \* the systemd-inhibit children spawned, in order
    stopCalls,         \* calls of stop_sleep_prevention so far
    lastStop,          \* how the latest completed stop call ended
    execState,         \* the latest SetThreadExecutionState call (Windows)
    startResult,       \* "none", "ok" or "failed": what start_sleep_prevention returned
    intsAfterStart,    \* SIGINTs delivered after start returned success
    trail,             \* what start-up has done so far, in order
    ticks,             \* one-second waits since the latest sleep command returned
    interruptedIn,     \* what the process was doing when the first SIGINT arrived
    noticeLogged,      \* the interruption has been written to the log
    main_sleep_type,   \* main's sleep_type: the operation selected for the run
    main_timeout,      \* main's timeout: seconds allowed to the sleep command
    lastCommand,       \* the sleep command issued last, and the timeout it was given
    display,           \* the mm:ss the countdown printed last, <<>> before any
    call,              \* a helper function called on its own: its arguments
    ret                \* what that call returned

cfgVars == <<prog, args, config, host>>
ctlVars == <<pc, hpc, spc, exiting, exitCode, handlerInstalled, interrupts>>
schedVars == <<wake_delay, delay_minutes, cycle, remaining,
               sleepIssued, sleepOK, sleepFailed, countdowns>>
inhVars == <<prevent_process, inhibitors, stopCalls, lastStop, execState,
             startResult, intsAfterStart>>
histVars == <<trail, ticks, interruptedIn, noticeLogged>>
fnVars == <<call, ret>>
opVars == <<main_sleep_type, main_timeout, lastCommand, display>>
vars == <<cfgVars, ctlVars, schedVars, inhVars, histVars, fnVars, opVars>>

(***************************************************************************)
(* Bounds of the model.                                                    *)
(***************************************************************************)
MaxDelay == 1
MaxCycle == 2
MaxInterrupts == 2
MaxSpawn == 3
MaxStops == 3
MaxTimeout == 2
MaxExitCode == 2
MaxMinutes == 2

(***************************************************************************)
(* Program constants.                                                      *)
(***************************************************************************)
SecondsPerMinute == 60
DefaultWakeDelay == 5
DefaultDelay == 0
DefaultCheckInterval == 10
DefaultTimeout == 15

(***************************************************************************)
(* Python values: None is the empty tuple, an int n is <<n>>.              *)
(***************************************************************************)
None == <<>>

Some(x) == <<x>>

OptDelay == {None} \cup {Some(d) : d \in 0..MaxDelay}

\* --delay and --wake-delay: argparse type=int takes any integer
ArgDelays == OptDelay \cup {Some(0 - 1)}

\* dict.get(key, default)
ConfigGet(entry, default) == IF entry = None THEN default ELSE entry[1]

\* Python's `a or b` on an optional int: None and 0 are falsy
PyOr(a, b) == IF a = None \/ a = Some(0) THEN b ELSE a[1]

\* wake_delay = args.wake_delay or config.get("wake_delay_minutes", 5)
MergeWakeDelay(a, c) ==
    PyOr(a.wake_delay, ConfigGet(c.wake_delay_minutes, DefaultWakeDelay))

\* default_delay = config.get("default_delay_minutes", 0), overridden by --delay
MergeDefaultDelay(a, c) ==
    IF a.delay # None THEN a.delay[1]
    ELSE ConfigGet(c.default_delay_minutes, DefaultDelay)

\* the operations systemctl is asked for
SleepTypes == {"suspend", "hibernate", "hybrid-sleep"}

\* the default of config.get("default_sleep_type", "suspend")
DefaultSleepType == "suspend"

\* sleep_type = args.sleep_type or config.get("default_sleep_type", "suspend");
\* argparse's choices leave args.sleep_type None or one of the three names
MergeSleepType(a, c) ==
    IF a.sleep_type # None THEN a.sleep_type[1]
    ELSE ConfigGet(c.default_sleep_type, DefaultSleepType)

\* timeout = args.timeout or config.get("sleep_command_timeout", 15)
MergeTimeout(a, c) ==
    PyOr(a.timeout, ConfigGet(c.sleep_command_timeout, DefaultTimeout))

Schedulers == {"linux_sleep", "windows_sleep", "systemSleep"}

WindowsSchedulers == {"windows_sleep", "systemSleep"}

Preventers == {"linux_sleep", "windows_prevent_sleep"}

Programs == Schedulers \cup Preventers

\* check_interval = args.interval or config.get("check_interval_seconds", 10)
MergeCheckInterval(a) == PyOr(a.interval, DefaultCheckInterval)

(***************************************************************************)
(* The state after the interpreter has started the script: the command     *)
(* line and the configuration file are fixed, nothing has run.             *)
(***************************************************************************)
SchedulerArgs ==
    [mode : {"sleep"}, delay : ArgDelays, wake_delay : ArgDelays, interval : {None},
     sleep_type : {None}, timeout : {None}]

PreventArgs(intervals) ==
    [mode : {"prevent"}, delay : {None}, wake_delay : {None}, interval : intervals,
     sleep_type : {None}, timeout : {None}]

\* runs of linux_sleep that choose the operation and the timeout
OperationArgs ==
    [mode : {"sleep"}, delay : {Some(0)}, wake_delay : {Some(1)}, interval : {None},
     sleep_type : {None} \cup {Some(t) : t \in SleepTypes},
     timeout : {None, Some(0), Some(MaxTimeout)}]

\* platform_ok: the platform check of main passes; pyw: is_run_as_pyw();
\* winapi: ctypes.windll.kernel32.SetThreadExecutionState can be called
Hosts(oks, pyws, apis) == [platform_ok : oks, pyw : pyws, winapi : apis]

SchedulerConfigs ==
    [wake_delay_minutes : OptDelay, default_delay_minutes : OptDelay,
     default_sleep_type : {None}, sleep_command_timeout : {None}]

NoConfig ==
    [wake_delay_minutes |-> None, default_delay_minutes |-> None,
     default_sleep_type |-> None, sleep_command_timeout |-> None]

\* configurations that name an operation (a known one, or one that is not)
\* and a timeout
OperationConfigs ==
    [wake_delay_minutes : {None}, default_delay_minutes : {None},
     default_sleep_type : {None, Some("hibernate"), Some("poweroff")},
     sleep_command_timeout : {None, Some(1)}]

EntryPoint(p) ==
    CASE p = "linux_sleep" -> "L_env"
      [] p \in WindowsSchedulers -> "W_platform"
      [] OTHER -> "WP_init"

InitInputs ==
    \/ /\ prog = "linux_sleep"
       /\ host \in Hosts(BOOLEAN, {FALSE}, {FALSE})
       /\ \/ args \in SchedulerArgs /\ config \in SchedulerConfigs
          \/ args \in OperationArgs /\ config \in OperationConfigs
          \/ args \in PreventArgs({None}) /\ config = NoConfig
    \/ /\ prog \in WindowsSchedulers
       /\ host \in Hosts(BOOLEAN, BOOLEAN, {FALSE})
       /\ args \in SchedulerArgs
       /\ config \in SchedulerConfigs
    \/ /\ prog = "windows_prevent_sleep"
       /\ host \in Hosts({TRUE}, {FALSE}, BOOLEAN)
       /\ args \in PreventArgs({None, Some(0 - 1)})
       /\ config = NoConfig

InitFresh ==
    /\ hpc = "none"
    /\ spc = "none"
    /\ exiting = None
    /\ exitCode = None
    /\ handlerInstalled = FALSE
    /\ interrupts = 0
    /\ wake_delay = DefaultWakeDelay
    /\ delay_minutes = 0
    /\ cycle = 1
    /\ remaining = 0
    /\ sleepIssued = 0
    /\ sleepOK = 0
    /\ sleepFailed = FALSE
    /\ countdowns = 0
    /\ prevent_process = 0
    /\ inhibitors = <<>>
    /\ stopCalls = 0
    /\ lastStop = "none"
    /\ execState = "none"
    /\ startResult = "none"
    /\ intsAfterStart = 0
    /\ trail = <<>>
    /\ ticks = 0
    /\ interruptedIn = "none"
    /\ noticeLogged = FALSE
    /\ main_sleep_type = DefaultSleepType
    /\ main_timeout = DefaultTimeout
    /\ lastCommand = None
    /\ display = None

\* no helper function is called on its own while a program runs
NoCall ==
    /\ call = [fn |-> "none"]
    /\ ret = [fn |-> "none"]

Init ==
    /\ InitInputs
    /\ pc = EntryPoint(prog)
    /\ InitFresh
    /\ NoCall

(***************************************************************************)
(* Leaving the process.  A SystemExit raised on the main path inside the   *)
(* try of a keep-awake loop runs that try's finally block first.           *)
(***************************************************************************)
InTry(p) == p \in {"P_hold", "WP_hold", "WP_except", "WP_except_exit"}

FinallyOf(p) == IF p = "P_hold" THEN "P_finally" ELSE "WP_finally"

ProcessExit(code) ==
    /\ pc' = "done"
    /\ exitCode' = Some(code)
    /\ hpc' = "none"
    /\ spc' = "none"
    /\ exiting' = None

\* sys.exit(code) raised while the main path is at pc
SysExit(code) ==
    IF InTry(pc)
    THEN /\ pc' = FinallyOf(pc)
         /\ exiting' = Some(code)
         /\ hpc' = "none"
         /\ spc' = "none"
         /\ UNCHANGED exitCode
    ELSE ProcessExit(code)

MainRuns == pc # "done" /\ hpc = "none"

(***************************************************************************)
(* The command runner (subprocess.run) and the helpers built on it.  A     *)
(* text is a tuple of words; a message is a tuple of its literal parts and *)
(* the values formatted into it.                                           *)
(***************************************************************************)
\* the words a command's diagnostic output is made of here
Words == {"authentication", "AUTHENTICATION", "Unauthorized", "failed"}

\* the texts a command can leave on stderr
Texts == {<<>>} \cup {<<w>> : w \in Words} \cup {<<v, w>> : v, w \in Words}

\* str.lower(), word by word
LowerWord(w) ==
    CASE w = "AUTHENTICATION" -> "authentication"
      [] w = "Unauthorized" -> "unauthorized"
      [] OTHER -> w

LowerIdentity(text) == text

\* `result.stderr.lower()`
Lower(text) == [i \in 1..Len(text) |-> LowerWord(text[i])]

\* `word in text`
Contains(text, word) == \E i \in 1..Len(text) : text[i] = word

\* how subprocess.run can end: the child exits with a code, TimeoutExpired,
\* FileNotFoundError, or another exception (here: OSError)
CommandResults(codes, texts) ==
    [kind : {"exit"}, code : codes, stderr : texts]
    \cup [kind : {"timeout", "notfound", "oserror"}, code : {0}, stderr : {<<>>}]

\* str(e) of the exception a run ended with
ExceptionText(run) ==
    IF run.kind = "notfound" THEN <<"[Errno 2] No such file or directory">>
    ELSE <<"[Errno 12] Cannot allocate memory">>

CannotUseMessageBare(sleep_type, stderr) == stderr

\* f"Cannot use {sleep_type}: {result.stderr.strip()}"
CannotUseMessage(sleep_type, stderr) == <<"Cannot use ", sleep_type, ": ">> \o stderr

\* linux_sleep_helpers.check_sleep_permissions(sleep_type), where dryrun is
\* how `systemctl <sleep_type> --dry-run` ends; commands is what was run
CheckSleepPermissions(sleep_type, dryrun) ==
    IF sleep_type \notin SleepTypes
    THEN [has_perm |-> FALSE, commands |-> <<>>,
          error |-> <<"Invalid sleep type: ", sleep_type>>]
    ELSE LET cmd == <<"systemctl", sleep_type, "--dry-run">>
             stderr == Lower(dryrun.stderr)
             error ==
                 CASE dryrun.kind = "timeout" ->
                          <<"Permission check timed out for ", sleep_type>>
                   [] dryrun.kind = "notfound" ->
                          <<"systemctl command not found">>
                   [] dryrun.kind = "oserror" ->
                          <<"Permission check failed: ">> \o ExceptionText(dryrun)
                   [] dryrun.kind = "exit" /\ dryrun.code = 0 -> <<>>
                   [] dryrun.kind = "exit" /\ dryrun.code # 0
                        /\ (Contains(stderr, "authentication")
                              \/ Contains(stderr, "unauthorized")) ->
                          <<"Insufficient permissions for ", sleep_type,
                            ". Try running with sudo or configure polkit rules.">>
                   [] OTHER ->
                          CannotUseMessage(sleep_type, dryrun.stderr)
         IN  [has_perm |-> (dryrun.kind = "exit" /\ dryrun.code = 0),
              commands |-> <<cmd>>,
              error |-> error]

GetSleepCommandSuspend(sleep_type) == <<"systemctl", "suspend">>

\* linux_sleep_helpers.get_sleep_command
GetSleepCommand(sleep_type) ==
    IF sleep_type \in SleepTypes THEN <<"systemctl", sleep_type>>
    ELSE <<"systemctl", "suspend">>

\* windows_sleep_helpers.SLEEP_COMMAND
SLEEP_COMMAND == <<"Rundll32.exe", "Powrprof.dll,SetSuspendState", "Sleep">>

\* the command execute_sleep of program p's helper module runs
SleepCommandOf(p, sleep_type) ==
    IF p = "linux_sleep" THEN GetSleepCommand(sleep_type) ELSE SLEEP_COMMAND

TimeoutMessageDefault(timeout) == <<"Sleep command timed out after ", 15, " seconds.">>

\* f"Sleep command timed out after {timeout} seconds."
TimeoutMessage(timeout) == <<"Sleep command timed out after ", timeout, " seconds.">>

\* str(CalledProcessError): the command and its exit status
CalledProcessErrorText(cmd, code) ==
    <<"Command ", cmd, " returned non-zero exit status ", code, ".">>

\* execute_sleep of both helper modules: cmd is the command it runs, run is
\* how subprocess.run(cmd, check=True, timeout=timeout) ends
ExecuteSleep(cmd, timeout, run) ==
    LET error ==
            CASE run.kind = "exit" /\ run.code = 0 -> <<>>
              [] run.kind = "timeout" -> TimeoutMessage(timeout)
              [] run.kind = "exit" /\ run.code # 0 ->
                     <<"Sleep command failed: ">> \o CalledProcessErrorText(cmd, run.code)
              [] OTHER -> <<"Unexpected error during sleep: ">> \o ExceptionText(run)
    IN  [success |-> (run.kind = "exit" /\ run.code = 0),
         commands |-> <<cmd>>,
         error |-> error]

\* which of the ways a sleep command can end a command result is
RunOutcome(run) ==
    CASE run.kind = "exit" /\ run.code = 0 -> "ok"
      [] run.kind = "exit" /\ run.code # 0 -> "nonzero"
      [] run.kind = "timeout" -> "timeout"
      [] run.kind = "notfound" -> "notfound"
      [] OTHER -> "error"

(***************************************************************************)
(* Start-up of the schedulers.                                             *)
(***************************************************************************)
ProbeGateOpen(ok, next) == next

\* `if not valid: ... sys.exit(1)`: where main goes after a probe
ProbeGate(ok, next) == IF ok THEN next ELSE "exit_1"

\* the trail entry a probe leaves
Probed(name, ok) == IF ok THEN <<name, "ok">> ELSE <<name, "failed">>

\* main goes to position `to`, or leaves with sys.exit(1)
GoOrExit(to) ==
    IF to = "exit_1"
    THEN ProcessExit(1)
    ELSE pc' = to /\ UNCHANGED <<hpc, spc, exiting, exitCode>>

\* linux_sleep.main: check_linux_environment
LinuxEnvCheck ==
    /\ MainRuns /\ pc = "L_env"
    /\ trail' = Append(trail, Probed("env", host.platform_ok))
    /\ GoOrExit(ProbeGate(host.platform_ok, "L_args"))
    /\ UNCHANGED <<cfgVars, opVars, fnVars, ticks, interruptedIn, noticeLogged,
                   handlerInstalled, interrupts, schedVars, inhVars>>

ModeEntrySleep(mode) == "L_perm"

\* `if mode == "sleep": ... elif mode == "prevent": ...`
ModeEntry(mode) == IF mode = "sleep" THEN "L_perm" ELSE "P_register"

\* linux_sleep.main: config, argparse, merge, logger, mode dispatch
LinuxArgs ==
    /\ MainRuns /\ pc = "L_args"
    /\ wake_delay' = MergeWakeDelay(args, config)
    /\ main_sleep_type' = MergeSleepType(args, config)
    /\ main_timeout' = MergeTimeout(args, config)
    /\ pc' = ModeEntry(args.mode)
    /\ UNCHANGED <<cfgVars, lastCommand, display, fnVars, histVars, hpc, spc, exiting, exitCode, handlerInstalled, interrupts,
                   delay_minutes, cycle, remaining, sleepIssued, sleepOK,
                   sleepFailed, countdowns, inhVars>>

\* how the dry run of the permission check can end on a host
DryRuns == CommandResults({0, 1}, {<<>>, <<"authentication">>})

\* the trail entry of entering the cycle loop
EntersLoop(to) == IF to = "S_top" THEN <<<<"loop", "entered">>>> ELSE <<>>

\* linux_sleep.main: check_sleep_permissions, then --delay or the prompt
LinuxPermCheck ==
    /\ MainRuns /\ pc = "L_perm"
    /\ \E dryrun \in DryRuns :
         LET has_perm == CheckSleepPermissions(main_sleep_type, dryrun).has_perm
             to == ProbeGate(has_perm, IF args.delay = None THEN "prompt" ELSE "S_top")
         IN  /\ trail' = Append(trail, Probed("perm", has_perm)) \o EntersLoop(to)
             /\ GoOrExit(to)
             /\ delay_minutes' = IF to = "S_top" THEN MergeDefaultDelay(args, config)
                                 ELSE delay_minutes
    /\ UNCHANGED <<cfgVars, opVars, fnVars, ticks, interruptedIn, noticeLogged,
                   handlerInstalled, interrupts, wake_delay, cycle, remaining,
                   sleepIssued, sleepOK, sleepFailed, countdowns, inhVars>>

\* windows_sleep.main / systemSleep.main: platform check
WindowsPlatformCheck ==
    /\ MainRuns /\ pc = "W_platform"
    /\ trail' = Append(trail, Probed("env", host.platform_ok))
    /\ GoOrExit(ProbeGate(host.platform_ok, "W_args"))
    /\ UNCHANGED <<cfgVars, opVars, fnVars, ticks, interruptedIn, noticeLogged,
                   handlerInstalled, interrupts, schedVars, inhVars>>

\* only windows_sleep registers a SIGINT handler
RegistersHandler(p) == p = "windows_sleep"

\* windows_sleep.main / systemSleep.main: config, argparse, merge, logger,
\* signal.signal (windows_sleep only), the .pyw branch
WindowsArgs ==
    /\ MainRuns /\ pc = "W_args"
    /\ wake_delay' = MergeWakeDelay(args, config)
    /\ main_timeout' = MergeTimeout(args, config)
    /\ handlerInstalled' = RegistersHandler(prog)
    /\ pc' = IF host.pyw THEN "S_exec" ELSE "prompt"
    /\ UNCHANGED <<cfgVars, main_sleep_type, lastCommand, display, fnVars, histVars, hpc, spc, exiting, exitCode, interrupts,
                   delay_minutes, cycle, remaining, sleepIssued, sleepOK,
                   sleepFailed, countdowns, inhVars>>

\* input("Put system to sleep ... (y/n)")
Prompt ==
    /\ MainRuns /\ pc = "prompt"
    /\ \E selection \in {"y", "n"} :
         IF selection # "y"
         THEN ProcessExit(0) /\ trail' = Append(trail, <<"prompt", "declined">>)
         ELSE /\ pc' = "ask_delay"
              /\ trail' = Append(trail, <<"prompt", "accepted">>)
              /\ UNCHANGED <<hpc, spc, exiting, exitCode>>
    /\ UNCHANGED <<cfgVars, opVars, fnVars, ticks, interruptedIn, noticeLogged,
                   handlerInstalled, interrupts, schedVars, inhVars>>

\* what the user types at the delay prompt: nothing, a non-number, an integer
TypedDelays ==
    {[kind |-> "empty", value |-> 0], [kind |-> "text", value |-> 0]}
    \cup {[kind |-> "int", value |-> n] : n \in (0 - 1)..MaxDelay}

\* what kind of thing was typed at the delay prompt
DelayInput(typed) ==
    CASE typed.kind # "int" -> typed.kind
      [] typed.kind = "int" /\ typed.value < 0 -> "negative"
      [] OTHER -> "nonnegative"

ParseDelayUnchecked(typed, default_delay) ==
    IF typed.kind = "text" THEN None
    ELSE Some(IF typed.kind = "empty" THEN default_delay ELSE typed.value)

\* the delay the prompt yields: <<minutes>>, or None when ValueError is raised
ParseDelay(typed, default_delay) ==
    LET minutes == IF typed.kind = "empty" THEN default_delay ELSE typed.value
    IN  IF typed.kind = "text" \/ minutes < 0 THEN None ELSE Some(minutes)

\* input("Enter delay before sleep in minutes ...")
AskDelay ==
    /\ MainRuns /\ pc = "ask_delay"
    /\ \E typed \in TypedDelays :
         LET parsed == ParseDelay(typed, MergeDefaultDelay(args, config))
         IN  IF parsed = None
             THEN /\ ProcessExit(1)
                  /\ trail' = Append(trail, <<"delay", DelayInput(typed)>>)
                  /\ UNCHANGED delay_minutes
             ELSE /\ delay_minutes' = parsed[1]
                  /\ pc' = "S_top"
                  /\ trail' = Append(trail, <<"delay", DelayInput(typed)>>)
                                \o EntersLoop("S_top")
                  /\ UNCHANGED <<hpc, spc, exiting, exitCode>>
    /\ UNCHANGED <<cfgVars, opVars, fnVars, ticks, interruptedIn, noticeLogged,
                   handlerInstalled, interrupts, wake_delay, cycle, remaining,
                   sleepIssued, sleepOK, sleepFailed, countdowns, inhVars>>

(***************************************************************************)
(* The cycle loop: sleep_mode_loop of linux_sleep, and the while True of   *)
(* windows_sleep.main and systemSleep.main.                                *)
(***************************************************************************)
\* how subprocess.run of the sleep command can end
SleepOutcomes == {"ok", "timeout", "nonzero", "notfound", "error"}

\* sleep_system: "True", "False", or "raise" when the exception escapes it.
\* linux_sleep and windows_sleep go through the helpers' execute_sleep, which
\* catches every Exception; systemSleep catches only TimeoutExpired and
\* CalledProcessError.
SleepSystem(p, outcome) ==
    IF outcome = "ok" THEN "True"
    ELSE IF p = "systemSleep" /\ outcome \in {"notfound", "error"} THEN "raise"
    ELSE "False"

LoopIgnoresFailure(p, success) == "S_top"

\* where the loop goes once sleep_system has returned: linux_sleep breaks
\* on failure, the Windows loops do not look at the result
LoopAfterSleep(p, success) ==
    IF p = "linux_sleep" /\ ~success THEN "S_break" ELSE "S_top"

NeverCountsDown(d) == FALSE

\* `if delay_minutes > 0:` -- does this cycle count down
CountsDown(d) == d > 0

CountdownSecondsShort(minutes) == minutes

\* countdown_timer: total_seconds = minutes * 60
CountdownSeconds(minutes) == minutes * SecondsPerMinute

\* top of the loop: `if delay_minutes > 0: countdown_timer(...)`
LoopTop ==
    /\ MainRuns /\ pc = "S_top"
    /\ cycle <= MaxCycle
    /\ IF CountsDown(delay_minutes)
       THEN /\ remaining' = CountdownSeconds(delay_minutes)
            /\ countdowns' = countdowns + 1
            /\ pc' = "S_count"
       ELSE /\ pc' = "S_exec"
            /\ UNCHANGED <<remaining, countdowns>>
    /\ UNCHANGED <<cfgVars, opVars, fnVars, histVars, hpc, spc, exiting, exitCode, handlerInstalled, interrupts,
                   wake_delay, delay_minutes, cycle, sleepIssued, sleepOK,
                   sleepFailed, inhVars>>

DivModWhole(n, d) == <<n, 0>>

\* divmod(remaining, 60): what the countdown prints as mm:ss
DivMod(n, d) == <<n \div d, n % d>>

\* countdown_timer: one pass of `for remaining in range(total_seconds, 0, -1)`
CountdownTick ==
    /\ MainRuns /\ pc = "S_count"
    /\ remaining > 0
    /\ remaining' = remaining - 1
    /\ ticks' = ticks + 1
    /\ display' = DivMod(remaining, SecondsPerMinute)
    /\ pc' = IF remaining = 1 THEN "S_exec" ELSE "S_count"
    /\ UNCHANGED <<cfgVars, main_sleep_type, main_timeout, lastCommand, fnVars, trail, interruptedIn, noticeLogged, hpc, spc, exiting, exitCode, handlerInstalled, interrupts,
                   wake_delay, delay_minutes, cycle, sleepIssued, sleepOK,
                   sleepFailed, countdowns, inhVars>>

\* sleep_system: the sleep command is started
SleepIssue ==
    /\ MainRuns /\ pc = "S_exec"
    /\ sleepIssued' = sleepIssued + 1
    /\ lastCommand' = Some([cmd |-> SleepCommandOf(prog, main_sleep_type),
                            timeout |-> main_timeout])
    /\ pc' = "S_wait"
    /\ UNCHANGED <<cfgVars, main_sleep_type, main_timeout, display, fnVars, histVars, hpc, spc, exiting, exitCode, handlerInstalled, interrupts,
                   wake_delay, delay_minutes, cycle, remaining, sleepOK,
                   sleepFailed, countdowns, inhVars>>

NextCycleSame(c) == c

\* `cycle += 1`
NextCycle(c) == c + 1

\* sleep_system returns (or raises), and the rest of the loop body runs
SleepReturn ==
    /\ MainRuns /\ pc = "S_wait"
    /\ \E outcome \in SleepOutcomes :
         LET result == SleepSystem(prog, outcome)
             next == LoopAfterSleep(prog, result = "True")
         IN  /\ sleepOK' = IF result = "True" THEN sleepOK + 1 ELSE sleepOK
             /\ sleepFailed' = (sleepFailed \/ result # "True")
             /\ ticks' = 0
             /\ IF result = "raise"
                THEN ProcessExit(1) /\ UNCHANGED <<delay_minutes, cycle>>
                ELSE IF host.pyw
                THEN ProcessExit(0) /\ UNCHANGED <<delay_minutes, cycle>>
                ELSE IF next = "S_break"
                THEN /\ pc' = "S_break"
                     /\ UNCHANGED <<hpc, spc, exiting, exitCode, delay_minutes, cycle>>
                ELSE /\ pc' = next
                     /\ delay_minutes' = wake_delay
                     /\ cycle' = NextCycle(cycle)
                     /\ UNCHANGED <<hpc, spc, exiting, exitCode>>
    /\ UNCHANGED <<cfgVars, opVars, fnVars, trail, interruptedIn, noticeLogged,
                   handlerInstalled, interrupts, wake_delay, remaining,
                   sleepIssued, countdowns, inhVars>>

\* linux_sleep: sleep_mode_loop has left its loop; it returns, main returns
LoopBreak ==
    /\ MainRuns /\ pc = "S_break"
    /\ ProcessExit(0)
    /\ UNCHANGED <<cfgVars, opVars, fnVars, histVars, handlerInstalled, interrupts, schedVars, inhVars>>

(***************************************************************************)
(* The Inhibit Controller of linux_sleep: systemd-inhibit children and the *)
(* global prevent_process.                                                 *)
(***************************************************************************)
\* how subprocess.Popen(inhibit_cmd) can end
PopenOutcomes == {"ok", "notfound", "error"}

\* a freshly spawned systemd-inhibit: running, no SIGTERM sent to it
Spawn(inh) == Append(inh, [alive |-> TRUE, term |-> FALSE])

\* `prevent_process = subprocess.Popen(...)`: the slot names the newest child
StoreHandle(inh) == Len(inh)

\* `if prevent_process:` -- a Popen object is truthy, None is not
HandleActive(slot) == slot # 0

\* is the child behind the handle still running
Alive(inh, slot) == HandleActive(slot) /\ inh[slot].alive

TerminateOutcomesUnchecked(alive) == {"ok", "raise"}

\* Popen.terminate(): returns at once when the child has exited, else
\* os.kill(pid, SIGTERM), which may raise
TerminateOutcomes(alive) == IF alive THEN {"ok", "raise"} ELSE {"ok"}

\* the effect of a terminate() that did not raise
Terminate(inh, slot) ==
    [inh EXCEPT ![slot].term = (@ \/ inh[slot].alive)]

\* prevent_process.wait(timeout=2): returns when the child has exited,
\* raises TimeoutExpired when it is still running after the grace period
WaitOutcome(alive) == IF alive THEN "warning" ELSE "stopped"

\* a systemd-inhibit child ends (after SIGTERM, or for a reason of its own)
ChildExit ==
    /\ pc # "done"
    /\ \E i \in 1..Len(inhibitors) :
         /\ inhibitors[i].alive
         /\ inhibitors' = [inhibitors EXCEPT ![i].alive = FALSE]
    /\ UNCHANGED <<cfgVars, opVars, fnVars, histVars, ctlVars, schedVars, prevent_process, stopCalls, lastStop,
                   execState, startResult, intsAfterStart>>

\* who is inside stop_sleep_prevention: the handler, or main's finally
StopRuns ==
    /\ pc # "done"
    /\ \/ hpc = "h_stop"
       \/ hpc = "none" /\ pc \in {"P_stop", "ctl_stop"}

\* stop_sleep_prevention returns to its caller
StopReturn ==
    /\ spc' = "none"
    /\ IF hpc = "h_stop"
       THEN hpc' = "h_exit" /\ UNCHANGED pc
       ELSE pc' = (IF pc = "ctl_stop" THEN "ctl" ELSE "F_end") /\ UNCHANGED hpc
    /\ UNCHANGED <<exiting, exitCode>>

OnStopErrorRaise(p) == "raise"

\* `except Exception as e: logger.warning(...)`: what stop does with an
\* exception of terminate() or wait()
OnStopError(p) == "warning"

\* the try of stop_sleep_prevention is over with result: the call returns,
\* unless an exception is left unhandled and ends the process
StopEnd(result) ==
    /\ lastStop' = result
    /\ IF result = "warning" /\ OnStopError(prog) # "warning"
       THEN ProcessExit(1)
       ELSE StopReturn

\* stop_sleep_prevention: prevent_process.terminate()
StopTerminate ==
    /\ StopRuns /\ spc = "term"
    /\ \E r \in TerminateOutcomes(Alive(inhibitors, prevent_process)) :
         IF r = "ok"
         THEN /\ inhibitors' = Terminate(inhibitors, prevent_process)
              /\ spc' = "wait"
              /\ UNCHANGED <<pc, hpc, lastStop, exiting, exitCode>>
         ELSE /\ StopEnd("warning")
              /\ UNCHANGED inhibitors
    /\ UNCHANGED <<cfgVars, opVars, fnVars, histVars, handlerInstalled, interrupts,
                   schedVars, prevent_process, stopCalls, execState, startResult,
                   intsAfterStart>>

\* stop_sleep_prevention: prevent_process.wait(timeout=2) and the log line
StopWait ==
    /\ StopRuns /\ spc = "wait"
    /\ StopEnd(WaitOutcome(Alive(inhibitors, prevent_process)))
    /\ UNCHANGED <<cfgVars, opVars, fnVars, histVars, handlerInstalled, interrupts,
                   schedVars, prevent_process, inhibitors, stopCalls, execState,
                   startResult, intsAfterStart>>

(***************************************************************************)
(* linux_sleep --mode prevent: prevent_mode_loop.                          *)
(***************************************************************************)
\* signal.signal(signal.SIGINT, signal_handler)
PreventRegister ==
    /\ MainRuns /\ pc = "P_register"
    /\ handlerInstalled' = TRUE
    /\ pc' = "P_start"
    /\ UNCHANGED <<cfgVars, opVars, fnVars, histVars, hpc, spc, exiting, exitCode, interrupts, schedVars, inhVars>>

\* start_sleep_prevention: subprocess.Popen(inhibit_cmd)
PreventPopen ==
    /\ MainRuns /\ pc = "P_start"
    /\ Len(inhibitors) < MaxSpawn
    /\ \E outcome \in PopenOutcomes :
         IF outcome = "ok"
         THEN /\ inhibitors' = Spawn(inhibitors)
              /\ pc' = "P_store"
              /\ UNCHANGED startResult
         ELSE /\ startResult' = "failed"
              /\ pc' = "P_fail"
              /\ UNCHANGED inhibitors
    /\ UNCHANGED <<cfgVars, opVars, fnVars, histVars, hpc, spc, exiting, exitCode, handlerInstalled, interrupts,
                   schedVars, prevent_process, stopCalls, lastStop, execState,
                   intsAfterStart>>

\* start_sleep_prevention: `prevent_process = <the Popen object>`, return True
PreventStore ==
    /\ MainRuns /\ pc = "P_store"
    /\ prevent_process' = StoreHandle(inhibitors)
    /\ startResult' = "ok"
    /\ pc' = "P_banner"
    /\ UNCHANGED <<cfgVars, opVars, fnVars, histVars, hpc, spc, exiting, exitCode, handlerInstalled, interrupts,
                   schedVars, inhibitors, stopCalls, lastStop, execState, intsAfterStart>>

StartFailedCodeSuccess(p) == 0

\* `if not start_sleep_prevention(...): ... sys.exit(1)` in program p
StartFailedCode(p) == 1

\* prevent_mode_loop / windows_prevent_sleep.main: start returned False
PreventStartFailed ==
    /\ MainRuns /\ pc \in {"P_fail", "WP_fail"}
    /\ SysExit(StartFailedCode(prog))
    /\ UNCHANGED <<cfgVars, opVars, fnVars, histVars, handlerInstalled, interrupts, schedVars, inhVars>>

\* prevent_mode_loop: the banner, then the try is entered
PreventBanner ==
    /\ MainRuns /\ pc = "P_banner"
    /\ pc' = "P_hold"
    /\ UNCHANGED <<cfgVars, opVars, fnVars, histVars, hpc, spc, exiting, exitCode, handlerInstalled, interrupts,
                   schedVars, inhVars>>

\* `while prevent_process and prevent_process.poll() is None: time.sleep(1)`
PreventHold ==
    /\ MainRuns /\ pc = "P_hold"
    /\ pc' = IF Alive(inhibitors, prevent_process) THEN "P_hold" ELSE "P_finally"
    /\ UNCHANGED <<cfgVars, opVars, fnVars, histVars, hpc, spc, exiting, exitCode, handlerInstalled, interrupts,
                   schedVars, inhVars>>

\* stop_sleep_prevention is entered: `if prevent_process:`
StopEnter(toActive, toIdle) ==
    /\ stopCalls' = stopCalls + 1
    /\ IF HandleActive(prevent_process)
       THEN spc' = "term" /\ toActive /\ UNCHANGED lastStop
       ELSE spc' = "none" /\ toIdle /\ lastStop' = "noop"

\* prevent_mode_loop: `finally: stop_sleep_prevention(logger)`
PreventFinally ==
    /\ MainRuns /\ pc = "P_finally"
    /\ StopEnter(pc' = "P_stop", pc' = "F_end")
    /\ UNCHANGED <<cfgVars, opVars, fnVars, histVars, hpc, exiting, exitCode, handlerInstalled, interrupts,
                   schedVars, prevent_process, inhibitors, execState, startResult,
                   intsAfterStart>>

\* the finally block is done: the held SystemExit goes on, or main returns
FinallyEnd ==
    /\ MainRuns /\ pc = "F_end"
    /\ ProcessExit(IF exiting = None THEN 0 ELSE exiting[1])
    /\ UNCHANGED <<cfgVars, opVars, fnVars, histVars, handlerInstalled, interrupts, schedVars, inhVars>>

(***************************************************************************)
(* windows_prevent_sleep: the execution-state flag.                        *)
(***************************************************************************)
\* windows_sleep_helpers.start_sleep_prevention:
\* SetThreadExecutionState(ES_CONTINUOUS | ES_SYSTEM_REQUIRED)
WinStart(h, es) == IF h.winapi THEN "required" ELSE es

WinStopKeeps(h, es) == es

\* windows_sleep_helpers.stop_sleep_prevention:
\* SetThreadExecutionState(ES_CONTINUOUS)
WinStop(h, es) == IF h.winapi THEN "continuous" ELSE es

\* windows_prevent_sleep.stop_sleep_prevention: the message it logs
WinStopResult(h) == IF h.winapi THEN "stopped" ELSE "warning"

\* one whole call of windows_prevent_sleep.stop_sleep_prevention
WinStopCall ==
    /\ stopCalls' = stopCalls + 1
    /\ execState' = WinStop(host, execState)
    /\ lastStop' = WinStopResult(host)

\* main up to signal.signal and the banner
WinPreventInit ==
    /\ MainRuns /\ pc = "WP_init"
    /\ handlerInstalled' = TRUE
    /\ pc' = "WP_start"
    /\ UNCHANGED <<cfgVars, opVars, fnVars, histVars, hpc, spc, exiting, exitCode, interrupts, schedVars, inhVars>>

\* main: `if not start_sleep_prevention():`
WinPreventStart ==
    /\ MainRuns /\ pc = "WP_start"
    /\ execState' = WinStart(host, execState)
    /\ startResult' = IF host.winapi THEN "ok" ELSE "failed"
    /\ pc' = IF host.winapi THEN "WP_hold" ELSE "WP_fail"
    /\ UNCHANGED <<cfgVars, opVars, fnVars, histVars, hpc, spc, exiting, exitCode, handlerInstalled, interrupts,
                   schedVars, prevent_process, inhibitors, stopCalls, lastStop,
                   intsAfterStart>>

\* `while True: time.sleep(check_interval)`; a negative interval raises ValueError
WinPreventHold ==
    /\ MainRuns /\ pc = "WP_hold"
    /\ pc' = IF MergeCheckInterval(args) < 0 THEN "WP_except" ELSE "WP_hold"
    /\ UNCHANGED <<cfgVars, opVars, fnVars, histVars, hpc, spc, exiting, exitCode, handlerInstalled, interrupts,
                   schedVars, inhVars>>

\* `except Exception`: log, stop_sleep_prevention()
WinPreventExcept ==
    /\ MainRuns /\ pc = "WP_except"
    /\ WinStopCall
    /\ pc' = "WP_except_exit"
    /\ UNCHANGED <<cfgVars, opVars, fnVars, histVars, hpc, spc, exiting, exitCode, handlerInstalled, interrupts,
                   schedVars, prevent_process, inhibitors, startResult, intsAfterStart>>

\* `except Exception`: sys.exit(1)
WinPreventExceptExit ==
    /\ MainRuns /\ pc = "WP_except_exit"
    /\ SysExit(1)
    /\ UNCHANGED <<cfgVars, opVars, fnVars, histVars, handlerInstalled, interrupts, schedVars, inhVars>>

\* `finally: stop_sleep_prevention()`
WinPreventFinally ==
    /\ MainRuns /\ pc = "WP_finally"
    /\ WinStopCall
    /\ pc' = "F_end"
    /\ UNCHANGED <<cfgVars, opVars, fnVars, histVars, hpc, spc, exiting, exitCode, handlerInstalled, interrupts,
                   schedVars, prevent_process, inhibitors, startResult, intsAfterStart>>

\* what the main path is doing at position p, as the scheduler's states
Phase(p) ==
    CASE p = "S_count" -> "countdown"
      [] p = "S_wait" -> "executing"
      [] OTHER -> "other"

KeyboardInterruptUncaught(p) == 130

\* the exit status of a KeyboardInterrupt raised at position p: countdown_timer
\* catches it (logs, sys.exit(0)), elsewhere it is uncaught
KeyboardInterruptStatus(p) == IF Phase(p) = "countdown" THEN 0 ELSE 130

(***************************************************************************)
(* SIGINT.  With a handler installed the handler runs on top of whatever   *)
(* the process was doing; without one Python raises KeyboardInterrupt on   *)
(* the main path, which only countdown_timer catches (it logs and calls    *)
(* sys.exit(0)); uncaught, it ends the process by SIGINT, status 130.      *)
(***************************************************************************)
Interrupt ==
    /\ pc # "done"
    /\ interrupts < MaxInterrupts
    /\ interrupts' = interrupts + 1
    /\ intsAfterStart' = IF startResult = "ok" THEN intsAfterStart + 1 ELSE intsAfterStart
    /\ interruptedIn' = IF interrupts = 0 THEN Phase(pc) ELSE interruptedIn
    /\ IF handlerInstalled
       THEN /\ hpc' = "h_begin"
            /\ spc' = "none"
            /\ UNCHANGED <<pc, exiting, exitCode, noticeLogged>>
       ELSE /\ ProcessExit(KeyboardInterruptStatus(pc))
            /\ noticeLogged' = (noticeLogged \/ Phase(pc) = "countdown")
    /\ UNCHANGED <<cfgVars, opVars, fnVars, trail, ticks, handlerInstalled, schedVars,
                   prevent_process, inhibitors, stopCalls, lastStop, execState,
                   startResult>>

\* linux_sleep.signal_handler: print, stop_sleep_prevention(logger)
LinuxHandler ==
    /\ pc # "done" /\ hpc = "h_begin" /\ prog = "linux_sleep"
    /\ StopEnter(hpc' = "h_stop", hpc' = "h_exit")
    /\ UNCHANGED <<cfgVars, opVars, fnVars, histVars, pc, exiting, exitCode, handlerInstalled, interrupts,
                   schedVars, prevent_process, inhibitors, execState, startResult,
                   intsAfterStart>>

\* windows_prevent_sleep.signal_handler: print, log, stop_sleep_prevention()
WinPreventHandler ==
    /\ pc # "done" /\ hpc = "h_begin" /\ prog = "windows_prevent_sleep"
    /\ WinStopCall
    /\ hpc' = "h_exit"
    /\ noticeLogged' = TRUE
    /\ UNCHANGED <<cfgVars, opVars, fnVars, trail, ticks, interruptedIn, pc, spc, exiting, exitCode, handlerInstalled, interrupts,
                   schedVars, prevent_process, inhibitors, startResult, intsAfterStart>>

\* windows_sleep.signal_handler: print, log
WinSleepHandler ==
    /\ pc # "done" /\ hpc = "h_begin" /\ prog = "windows_sleep"
    /\ hpc' = "h_exit"
    /\ noticeLogged' = TRUE
    /\ UNCHANGED <<cfgVars, opVars, fnVars, trail, ticks, interruptedIn, pc, spc, exiting, exitCode, handlerInstalled, interrupts,
                   schedVars, inhVars>>

HandlerExitCodeFailure(p) == 1

\* the code of the sys.exit that ends program p's signal_handler
HandlerExitCode(p) == 0

\* every signal_handler ends with sys.exit(0)
HandlerExit ==
    /\ pc # "done" /\ hpc = "h_exit"
    /\ SysExit(HandlerExitCode(prog))
    /\ UNCHANGED <<cfgVars, opVars, fnVars, histVars, handlerInstalled, interrupts, schedVars, inhVars>>

(***************************************************************************)
(* The specification.                                                      *)
(***************************************************************************)
Next ==
    \/ LinuxEnvCheck
    \/ LinuxArgs
    \/ LinuxPermCheck
    \/ WindowsPlatformCheck
    \/ WindowsArgs
    \/ Prompt
    \/ AskDelay
    \/ LoopTop
    \/ CountdownTick
    \/ SleepIssue
    \/ SleepReturn
    \/ LoopBreak
    \/ ChildExit
    \/ StopTerminate
    \/ StopWait
    \/ PreventRegister
    \/ PreventPopen
    \/ PreventStore
    \/ PreventStartFailed
    \/ PreventBanner
    \/ PreventHold
    \/ PreventFinally
    \/ FinallyEnd
    \/ WinPreventInit
    \/ WinPreventStart
    \/ WinPreventHold
    \/ WinPreventExcept
    \/ WinPreventExceptExit
    \/ WinPreventFinally
    \/ Interrupt
    \/ LinuxHandler
    \/ WinPreventHandler
    \/ WinSleepHandler
    \/ HandlerExit

Spec == Init /\ [][Next]_vars

(***************************************************************************)
(* The Inhibit Controller on its own: start_sleep_prevention and           *)
(* stop_sleep_prevention of linux_sleep are module-level functions, here   *)
(* called in any order by a caller that holds no state of its own.         *)
(***************************************************************************)
InitCtl ==
    /\ prog = "linux_sleep"
    /\ args \in PreventArgs({None})
    /\ config = NoConfig
    /\ host \in Hosts({TRUE}, {FALSE}, {FALSE})
    /\ pc = "ctl"
    /\ InitFresh
    /\ NoCall

\* one whole call of start_sleep_prevention
CtlStart ==
    /\ pc = "ctl"
    /\ Len(inhibitors) < MaxSpawn
    /\ \E outcome \in PopenOutcomes :
         IF outcome = "ok"
         THEN /\ inhibitors' = Spawn(inhibitors)
              /\ prevent_process' = StoreHandle(inhibitors')
              /\ startResult' = "ok"
         ELSE /\ startResult' = "failed"
              /\ UNCHANGED <<inhibitors, prevent_process>>
    /\ UNCHANGED <<cfgVars, opVars, fnVars, histVars, ctlVars, schedVars, stopCalls, lastStop, execState,
                   intsAfterStart>>

\* a call of stop_sleep_prevention begins
CtlStop ==
    /\ pc = "ctl"
    /\ stopCalls < MaxStops
    /\ StopEnter(pc' = "ctl_stop", pc' = "ctl")
    /\ UNCHANGED <<cfgVars, opVars, fnVars, histVars, hpc, exiting, exitCode, handlerInstalled, interrupts,
                   schedVars, prevent_process, inhibitors, execState, startResult,
                   intsAfterStart>>

NextCtl ==
    \/ CtlStart
    \/ CtlStop
    \/ StopTerminate
    \/ StopWait
    \/ ChildExit

SpecCtl == InitCtl /\ [][NextCtl]_vars

(***************************************************************************)
(* The helper functions on their own: execute_sleep of both helper         *)
(* modules, sleep_system of the three schedulers and                       *)
(* check_sleep_permissions, each called with arguments and a command       *)
(* result drawn from bounded sets.                                         *)
(***************************************************************************)
InitHelpers ==
    /\ prog = "linux_sleep"
    /\ args \in PreventArgs({None})
    /\ config = NoConfig
    /\ host \in Hosts({TRUE}, {FALSE}, {FALSE})
    /\ pc = "helpers"
    /\ InitFresh
    /\ NoCall

\* the sleep types a caller can pass: the three known ones and another
PassedSleepTypes == SleepTypes \cup {"poweroff"}

\* linux_sleep_helpers.execute_sleep(sleep_type, timeout) or
\* windows_sleep_helpers.execute_sleep(timeout)
CallExecuteSleep ==
    /\ pc = "helpers"
    /\ \E p \in {"linux_sleep", "windows_sleep"}, t \in 1..MaxTimeout,
          sleep_type \in PassedSleepTypes,
          run \in CommandResults(0..MaxExitCode, {<<>>}) :
         /\ p = "windows_sleep" => sleep_type = DefaultSleepType
         /\ call' = [fn |-> "execute_sleep", prog |-> p, sleep_type |-> sleep_type,
                     timeout |-> t, run |-> run]
         /\ ret' = ExecuteSleep(SleepCommandOf(p, sleep_type), t, run)
    /\ UNCHANGED <<cfgVars, opVars, ctlVars, schedVars, inhVars, histVars>>

\* sleep_system(logger, timeout) of one of the schedulers
CallSleepSystem ==
    /\ pc = "helpers"
    /\ \E p \in Schedulers, t \in 1..MaxTimeout,
          run \in CommandResults(0..MaxExitCode, {<<>>}) :
         /\ call' = [fn |-> "sleep_system", prog |-> p, timeout |-> t, run |-> run]
         /\ ret' = [result |-> SleepSystem(p, RunOutcome(run))]
    /\ UNCHANGED <<cfgVars, opVars, ctlVars, schedVars, inhVars, histVars>>

\* linux_sleep_helpers.check_sleep_permissions(sleep_type)
CallCheckSleepPermissions ==
    /\ pc = "helpers"
    /\ \E sleep_type \in PassedSleepTypes,
          dryrun \in CommandResults(0..MaxExitCode, Texts) :
         /\ call' = [fn |-> "check_sleep_permissions", sleep_type |-> sleep_type,
                     run |-> dryrun]
         /\ ret' = CheckSleepPermissions(sleep_type, dryrun)
    /\ UNCHANGED <<cfgVars, opVars, ctlVars, schedVars, inhVars, histVars>>

NextHelpers ==
    \/ CallExecuteSleep
    \/ CallSleepSystem
    \/ CallCheckSleepPermissions

SpecHelpers == InitHelpers /\ [][NextHelpers]_vars

(***************************************************************************)
(* countdown_timer on its own: called once with a number of minutes and    *)
(* left to run without an interrupt.  The main path is the only thread, so *)
(* a pass of the loop that can run does run.                               *)
(***************************************************************************)
InitCountdown ==
    /\ prog \in Schedulers
    /\ args \in {a \in SchedulerArgs : a.delay = None /\ a.wake_delay = None}
    /\ config = NoConfig
    /\ host \in Hosts({TRUE}, {FALSE}, {FALSE})
    /\ pc = "timer"
    /\ InitFresh
    /\ NoCall

\* countdown_timer(minutes, logger, cycle) is entered: total_seconds is set
\* and the for loop begins (with nothing to do when total_seconds is 0)
CallCountdownTimer ==
    /\ pc = "timer"
    /\ \E minutes \in 0..MaxMinutes :
         /\ call' = [fn |-> "countdown_timer", minutes |-> minutes]
         /\ remaining' = CountdownSeconds(minutes)
         /\ pc' = IF CountdownSeconds(minutes) > 0 THEN "S_count" ELSE "S_exec"
    /\ countdowns' = countdowns + 1
    /\ UNCHANGED <<cfgVars, opVars, histVars, ret, hpc, spc, exiting, exitCode,
                   handlerInstalled, interrupts, wake_delay, delay_minutes, cycle,
                   sleepIssued, sleepOK, sleepFailed, inhVars>>

NextCountdown ==
    \/ CallCountdownTimer
    \/ CountdownTick

SpecCountdown == InitCountdown /\ [][NextCountdown]_vars /\ WF_vars(CountdownTick)

(***************************************************************************)
(* Properties.                                                             *)
(***************************************************************************)
Exited == pc = "done"

ScheduleRun == prog \in Schedulers /\ args.mode = "sleep"

PreventRun == prog \in Preventers /\ args.mode = "prevent"

\* C1: in linux_sleep's sleep_mode_loop, once a sleep execution has returned
\* failure no further sleep command is issued, no further countdown is
\* started and the cycle number does not advance.
C1_StopOnFirstFailure ==
    [][(prog = "linux_sleep" /\ sleepFailed)
         => /\ sleepIssued' = sleepIssued
            /\ countdowns' = countdowns
            /\ cycle' = cycle]_vars

\* C1 witness: the sleep command of cycle 2 has failed and the loop was left
C1_Witness ==
    prog = "linux_sleep" /\ sleepFailed /\ cycle = 2 /\ sleepIssued = 2 /\ pc = "S_break"

\* C2: a linux_sleep schedule run that ended because the sleep command failed
\* (and was not interrupted) ends with exit code 1.
C2_FailedSleepExitsOne ==
    (prog = "linux_sleep" /\ ScheduleRun /\ Exited /\ sleepFailed /\ interrupts = 0)
        => exitCode = Some(1)

\* C3: in the cycle loops of windows_sleep.main and systemSleep.main, once
\* sleep_system has returned False no countdown is entered and no further
\* sleep command is issued.
C3_WindowsFailureStopsLoop ==
    [][(prog \in WindowsSchedulers /\ sleepFailed)
         => /\ sleepIssued' = sleepIssued
            /\ countdowns' = countdowns]_vars

\* the wake delay the user configured: --wake-delay when given, else the
\* configuration's wake_delay_minutes, else the documented default
ConfiguredWakeDelay ==
    IF args.wake_delay # None THEN args.wake_delay[1]
    ELSE ConfigGet(config.wake_delay_minutes, DefaultWakeDelay)

\* C4: from cycle 2 on the pending delay is the configured wake delay, for
\* every configured value >= 0 and every initial delay.
C4_PendingDelayIsWakeDelay ==
    (ScheduleRun /\ cycle >= 2 /\ ConfiguredWakeDelay >= 0)
        => delay_minutes = ConfiguredWakeDelay

\* C5: a prevent run in which one interrupt arrived, after the inhibitor was
\* started, has called stop exactly once when it exits, and exits with 0.
C5_StopExactlyOnce ==
    (PreventRun /\ Exited /\ startResult = "ok"
       /\ interrupts = 1 /\ intsAfterStart = 1)
        => (stopCalls = 1 /\ exitCode = Some(0))

\* C6: no interrupted prevent run whose stop calls raised nothing ends with a
\* spawned inhibitor that is running and was never sent a terminate request.
C6_NoInhibitorLeftBehind ==
    (PreventRun /\ Exited /\ interrupts > 0 /\ lastStop # "warning")
        => \A i \in 1..Len(inhibitors) :
              inhibitors[i].alive => inhibitors[i].term

\* the inhibition is in force: a handle is held, or the Windows flag is set
InhibitState == <<prevent_process, inhibitors, execState = "required">>

\* a step of a stop call: the call is entered, terminate() is done, or it returns
StopStep ==
    \/ stopCalls' # stopCalls
    \/ spc # "none" /\ spc' # spc /\ hpc' # "h_begin"

LiveInhibitors == {i \in 1..Len(inhibitors) : inhibitors[i].alive}

\* C8: at most one inhibitor is live, whatever the order in which start and
\* stop are called.
C8_AtMostOneLiveInhibitor == Cardinality(LiveInhibitors) <= 1

\* C9: once a stop call on an active handle has sent its terminate request
\* and returned, the inhibitor is no longer running.
C9_StoppedMeansNotRunning ==
    (prog = "linux_sleep" /\ HandleActive(prevent_process) /\ spc = "none"
       /\ lastStop \in {"stopped", "warning"}
       /\ inhibitors[prevent_process].term)
        => ~inhibitors[prevent_process].alive

C11_HoldsUntilInterrupted ==
    (prog = "linux_sleep" /\ PreventRun /\ startResult = "ok" /\ interrupts = 0)
        => pc \in {"P_banner", "P_hold"}

\* C12: execute_sleep succeeds exactly when the command exits 0 within the
\* timeout; a timeout gives the failure whose message carries the timeout
\* value passed in; a non-zero exit gives the failure whose message carries
\* the exit status; the three results differ in success flag or message head.
C12_ExecuteSleepOutcomes ==
    call.fn = "execute_sleep" =>
        /\ ret.success <=> (call.run.kind = "exit" /\ call.run.code = 0)
        /\ ret.success => ret.error = <<>>
        /\ call.run.kind = "timeout"
              => /\ ret.error[1] = "Sleep command timed out after "
                 /\ ret.error[2] = call.timeout
        /\ (call.run.kind = "exit" /\ call.run.code # 0)
              => /\ ret.error[1] = "Sleep command failed: "
                 /\ ret.error[5] = call.run.code

\* C12 witness: a command that outlived a timeout of more than one second
C12_Witness ==
    /\ call.fn = "execute_sleep" /\ call.run.kind = "timeout" /\ call.timeout > 1
    /\ ~ret.success /\ ret.error[2] = call.timeout

\* C13: a missing sleep executable gives a failure result of its own kind,
\* not the one given for any other exception, and sleep_system of no
\* scheduler lets the exception escape.
C13_MissingExecutableIsOutcome ==
    /\ (call.fn = "execute_sleep" /\ call.run.kind = "notfound")
          => (~ret.success /\ ret.error[1] # "Unexpected error during sleep: ")
    /\ (call.fn = "sleep_system" /\ call.run.kind = "notfound")
          => ret.result # "raise"

\* the words that mark an authorization failure, in the letter cases modelled
AuthWords == {"authentication", "AUTHENTICATION", "unauthorized", "Unauthorized"}

\* C14: check_sleep_permissions rejects an unknown sleep type without running
\* a command; for a known one a dry run that exits 0 is success whatever its
\* text, a non-zero exit whose text has an authorization word in any letter
\* case is the insufficient-permissions failure, a timeout and a missing
\* systemctl each give their own failure.
C14_PermissionClassification ==
    call.fn = "check_sleep_permissions" =>
        /\ call.sleep_type \notin SleepTypes
              => /\ ~ret.has_perm
                 /\ ret.commands = <<>>
                 /\ ret.error[1] = "Invalid sleep type: "
        /\ call.sleep_type \in SleepTypes
              => /\ ret.has_perm <=> (call.run.kind = "exit" /\ call.run.code = 0)
                 /\ (call.run.kind = "exit" /\ call.run.code # 0
                       /\ \E i \in 1..Len(call.run.stderr) :
                              call.run.stderr[i] \in AuthWords)
                       => ret.error[1] = "Insufficient permissions for "
                 /\ call.run.kind = "timeout"
                       => ret.error[1] = "Permission check timed out for "
                 /\ call.run.kind = "notfound"
                       => ret.error[1] = "systemctl command not found"

\* C14 witness: a non-zero dry run whose text says AUTHENTICATION in capitals
C14_Witness ==
    /\ call.fn = "check_sleep_permissions" /\ call.sleep_type = "hibernate"
    /\ call.run.kind = "exit" /\ call.run.code = 1
    /\ call.run.stderr = <<"failed", "AUTHENTICATION">>
    /\ ret.error[1] = "Insufficient permissions for "

\* has start-up left entry e on the trail
InTrail(e) == \E i \in 1..Len(trail) : trail[i] = e

\* C15: in linux_sleep a countdown or a sleep command comes only after the
\* environment check and then the permission check have succeeded; a failed
\* probe ends the run with exit code 1 and no countdown or sleep command; in
\* prevent mode start is not attempted before the environment check succeeded.
C15_ProbeGating ==
    prog = "linux_sleep" =>
        /\ (ScheduleRun /\ (countdowns > 0 \/ sleepIssued > 0))
              => /\ Len(trail) >= 2
                 /\ trail[1] = <<"env", "ok">>
                 /\ trail[2] = <<"perm", "ok">>
        /\ (InTrail(<<"env", "failed">>) \/ InTrail(<<"perm", "failed">>))
              => /\ Exited /\ exitCode = Some(1)
                 /\ countdowns = 0 /\ sleepIssued = 0 /\ inhibitors = <<>>
        /\ (PreventRun /\ (inhibitors # <<>> \/ startResult # "none"))
              => /\ Len(trail) >= 1
                 /\ trail[1] = <<"env", "ok">>

\* C15 witness: a sleep command is running after both probes passed
C15_Witness ==
    /\ prog = "linux_sleep" /\ ScheduleRun /\ pc = "S_wait" /\ sleepIssued = 1
    /\ trail[1] = <<"env", "ok">> /\ trail[2] = <<"perm", "ok">>

\* C16: while a sleep command runs, cycle 1 with initial delay 0 has counted
\* no second, and every cycle N >= 2 has counted at least one.
C16_CountdownSkippedInCycleOneOnly ==
    (ScheduleRun /\ pc = "S_wait") =>
        /\ (cycle = 1 /\ delay_minutes = 0) => ticks = 0
        /\ cycle >= 2 => ticks > 0

\* C16 as the loop has it: cycle 1 with initial delay 0 has counted no second,
\* and a cycle N >= 2 has counted down exactly when the wake delay is above 0.
C16_CountdownSkippedWhenDelayZero ==
    (ScheduleRun /\ pc = "S_wait") =>
        /\ (cycle = 1 /\ delay_minutes = 0) => ticks = 0
        /\ cycle >= 2 => (ticks > 0 <=> wake_delay > 0)

\* C16 witness: cycle 1 slept at once, cycle 2 sleeps after its countdown
C16_Witness ==
    /\ ScheduleRun /\ pc = "S_wait" /\ cycle = 2 /\ countdowns = 1
    /\ ticks > 0 /\ wake_delay > 0 /\ sleepOK = 1

\* C17: while the sleep command of cycle N runs, N sleep commands have been
\* issued and at most N countdowns started, the countdown before it has run
\* out, and for N >= 2 exactly wake_delay * 60 one-second waits lie between
\* the return of the previous sleep command and this one.
C17_CycleOrdering ==
    (ScheduleRun /\ pc = "S_wait") =>
        /\ sleepIssued = cycle
        /\ countdowns <= cycle
        /\ remaining = 0
        /\ (cycle >= 2 /\ wake_delay >= 0) => ticks = wake_delay * 60

\* C17 witness: initial delay 0, wake delay 1, cycle 2 sleeps after 60 waits
C17_Witness ==
    /\ ScheduleRun /\ prog = "linux_sleep" /\ pc = "S_wait" /\ cycle = 2
    /\ args.delay = Some(0) /\ wake_delay = 1 /\ ticks = 60 /\ countdowns = 1
    /\ sleepOK = 1

\* C18: once an interrupt has arrived during a countdown no second is counted,
\* no countdown is started and no sleep command is issued, and the run, once
\* over, has logged the interruption and left with exit code 0.
C18_CountdownInterruptExits ==
    /\ []((ScheduleRun /\ interruptedIn = "countdown" /\ Exited)
             => (exitCode = Some(0) /\ noticeLogged))
    /\ [][(ScheduleRun /\ interruptedIn = "countdown")
             => /\ ticks' = ticks
                /\ remaining' = remaining
                /\ countdowns' = countdowns
                /\ sleepIssued' = sleepIssued]_vars

\* C18 witness: the wake-delay countdown of cycle 2 was interrupted, the run is over
C18_Witness ==
    /\ ScheduleRun /\ interruptedIn = "countdown" /\ Exited
    /\ cycle = 2 /\ ticks > 0 /\ remaining > 0 /\ sleepIssued = 1

\* C19: a schedule run that entered the cycle loop and is over, with no
\* interrupt outside a countdown and a sleep execution, ended because a sleep
\* command failed or because a countdown was interrupted.
C19_EndsOnlyOnFailureOrCountdownInterrupt ==
    (ScheduleRun /\ Exited /\ InTrail(<<"loop", "entered">>)
       /\ interruptedIn \in {"none", "countdown", "executing"})
        => (sleepFailed \/ interruptedIn = "countdown")

\* C20: a schedule run whose start prompt was declined is over with exit code
\* 0, one whose typed delay was a non-number or a negative integer is over
\* with exit code 1, and neither has started a countdown or a sleep command.
C20_StartupExits ==
    ScheduleRun =>
        /\ InTrail(<<"prompt", "declined">>)
              => /\ Exited /\ exitCode = Some(0)
                 /\ countdowns = 0 /\ sleepIssued = 0
        /\ (InTrail(<<"delay", "text">>) \/ InTrail(<<"delay", "negative">>))
              => /\ Exited /\ exitCode = Some(1)
                 /\ countdowns = 0 /\ sleepIssued = 0

\* C20 witness: a negative delay was typed and the run is over
C20_Witness ==
    /\ ScheduleRun /\ Exited /\ InTrail(<<"delay", "negative">>)
    /\ exitCode = Some(1)

\* has the run entered the cycle loop
LoopEntered == InTrail(<<"loop", "entered">>)

\* C21: in every state of a schedule run that has entered the cycle loop the
\* cycle number is at least 1 and the pending delay is at least 0.
C21_CycleStateInvariant ==
    (ScheduleRun /\ LoopEntered) => (cycle >= 1 /\ delay_minutes >= 0)

\* C22: a prevent run that took two interrupts after its start is over with
\* exit code 0 and in the final state of a run that took one: linux_sleep
\* still has its one inhibitor and the handle to it, not running when the
\* last stop call succeeded; on Windows the execution-state flag is reset.
C22_DoubleInterruptIdempotent ==
    (PreventRun /\ Exited /\ startResult = "ok" /\ intsAfterStart = 2)
        => /\ exitCode = Some(0)
           /\ prog = "linux_sleep"
                 => /\ Len(inhibitors) = 1
                    /\ prevent_process = 1
                    /\ lastStop \in {"stopped", "warning"}
                    /\ lastStop = "stopped" => ~inhibitors[1].alive
           /\ prog = "windows_prevent_sleep"
                 => (execState = "continuous" /\ lastStop = "stopped")

\* C22 witness: the second interrupt restarted the handler's teardown; with
\* the finally block stop ran three times, and the run ended with code 0
C22_Witness ==
    /\ PreventRun /\ Exited /\ prog = "linux_sleep"
    /\ startResult = "ok" /\ intsAfterStart = 2 /\ stopCalls = 3
    /\ lastStop = "stopped" /\ exitCode = Some(0)

\* C23: a stop call that fails ends in a warning and returns to its caller
\* (the step neither ends the process nor sets an exit code), and an
\* interrupted prevent run whose last stop call failed still exits with 0.
C23_StopFailureNotEscalated ==
    /\ []((PreventRun /\ Exited /\ startResult = "ok" /\ intsAfterStart > 0
              /\ lastStop = "warning")
             => exitCode = Some(0))
    /\ [][(spc \in {"term", "wait"} /\ spc' = "none" /\ interrupts' = interrupts
              /\ lastStop' = "warning")
             => (pc' # "done" /\ exitCode' = exitCode /\ exiting' = exiting
                 /\ (hpc = "h_stop" => hpc' = "h_exit"))]_vars

\* C23 witness: the inhibitor outlived the grace period, the run ended with 0
C23_Witness ==
    /\ PreventRun /\ Exited /\ prog = "linux_sleep"
    /\ startResult = "ok" /\ intsAfterStart = 1
    /\ lastStop = "warning" /\ inhibitors[1].alive /\ inhibitors[1].term
    /\ exitCode = Some(0)

\* C24: in linux_sleep the handle slot is empty until a start has succeeded,
\* holds the newest inhibitor after one, and is empty whenever a stop call
\* has completed and none is in progress.
C24_HandleLifecycle ==
    prog = "linux_sleep" =>
        /\ startResult # "ok" => ~HandleActive(prevent_process)
        /\ (startResult = "ok" /\ lastStop = "none")
              => prevent_process = Len(inhibitors)
        /\ (lastStop # "none" /\ spc = "none") => ~HandleActive(prevent_process)

\* C25: countdown_timer(d) counts remaining down by one per wait from d*60;
\* what it prints for remaining is mm:ss with mm = remaining div 60,
\* 0 <= ss <= 59 and mm*60 + ss = remaining; when it returns it has waited
\* d*60 times; and once counting it always returns.
C25_CountdownTimer ==
    /\ []((call.fn = "countdown_timer" /\ pc = "S_exec")
             => (ticks = call.minutes * 60 /\ remaining = 0))
    /\ [][(call.fn = "countdown_timer" /\ ticks' # ticks)
             => /\ ticks' = ticks + 1
                /\ remaining = call.minutes * 60 - ticks
                /\ remaining >= 1
                /\ remaining' = remaining - 1
                /\ display'[1] * 60 + display'[2] = remaining
                /\ display'[2] \in 0..59
                /\ display'[1] = remaining \div 60]_vars
    /\ ((call.fn = "countdown_timer" /\ pc = "S_count") ~> pc = "S_exec")

\* C25 witness: countdown_timer(2) has returned after 120 waits, last print 00:01
C25_Witness ==
    /\ call.fn = "countdown_timer" /\ call.minutes = 2 /\ pc = "S_exec"
    /\ ticks = 120 /\ display = <<0, 1>>

\* C26: in a linux_sleep schedule run every sleep command issued is the
\* systemctl command of the operation selected at start-up, a known one,
\* given the timeout selected at start-up, and neither selection changes
\* once the cycle loop is entered.
C26_OperationSelectedOnce ==
    /\ []((prog = "linux_sleep" /\ ScheduleRun /\ sleepIssued > 0)
             => /\ MergeSleepType(args, config) \in SleepTypes
                /\ lastCommand[1].cmd = <<"systemctl", MergeSleepType(args, config)>>
                /\ lastCommand[1].timeout = main_timeout)
    /\ [][(prog = "linux_sleep" /\ ScheduleRun /\ LoopEntered)
             => (main_sleep_type' = main_sleep_type /\ main_timeout' = main_timeout)]_vars

\* C26 witness: cycle 2 of a run whose configuration selects hibernate
C26_Witness ==
    /\ prog = "linux_sleep" /\ ScheduleRun /\ pc = "S_wait" /\ cycle = 2
    /\ args.sleep_type = None /\ config.default_sleep_type = Some("hibernate")
    /\ lastCommand = Some([cmd |-> <<"systemctl", "hibernate">>, timeout |-> 1])

\* C27: every result of execute_sleep and of check_sleep_permissions is
\* success with an empty message or failure with a non-empty message.
C27_OutcomeFullyPopulated ==
    /\ call.fn = "execute_sleep" => (ret.success <=> Len(ret.error) = 0)
    /\ call.fn = "check_sleep_permissions" => (ret.has_perm <=> Len(ret.error) = 0)

\* C27 witness: a permission check that failed with nothing on stderr
C27_Witness ==
    /\ call.fn = "check_sleep_permissions" /\ call.sleep_type = "suspend"
    /\ call.run.kind = "exit" /\ call.run.code = 1 /\ call.run.stderr = <<>>
    /\ ~ret.has_perm /\ Len(ret.error) > 0

\* C28: in linux_sleep's sleep_mode_loop the cycle number is one more than
\* the number of sleep commands that returned success, and the number of
\* sleep commands issued is cycle - 1 or cycle.
C28_OneSleepPerCycle ==
    (prog = "linux_sleep" /\ ScheduleRun)
        => /\ cycle = 1 + sleepOK
           /\ sleepIssued \in {cycle - 1, cycle}

\* C28 witness: the sleep command of cycle 2 is running after one success
C28_Witness ==
    /\ prog = "linux_sleep" /\ ScheduleRun /\ pc = "S_wait"
    /\ cycle = 2 /\ sleepOK = 1 /\ sleepIssued = 2

\* C29: a linux_sleep schedule run never starts an inhibitor, never fills the
\* handle slot and never calls stop; a linux_sleep prevent run never makes
\* the permission check and never counts down or issues a sleep command.
C29_ModesDoNotInterfere ==
    prog = "linux_sleep" =>
        /\ ScheduleRun
              => /\ inhibitors = <<>> /\ ~HandleActive(prevent_process)
                 /\ startResult = "none" /\ stopCalls = 0
        /\ PreventRun
              => /\ ~InTrail(<<"perm", "ok">>) /\ ~InTrail(<<"perm", "failed">>)
                 /\ countdowns = 0 /\ sleepIssued = 0 /\ lastCommand = None

\* C29 witness: a prevent run holds its inhibitor, no sleep command issued
C29_Witness ==
    /\ prog = "linux_sleep" /\ PreventRun /\ pc = "P_hold"
    /\ HandleActive(prevent_process) /\ inhibitors[prevent_process].alive
    /\ sleepIssued = 0

\* C30: a windows_prevent_sleep run that set the execution-state flag and is
\* over made the reset its last execution-state call; it ended with code 0
\* when the check interval is usable (only an interrupt ends it) and with
\* code 1 when time.sleep raised and no interrupt arrived.
C30_WindowsFlagResetOnExit ==
    (prog = "windows_prevent_sleep" /\ Exited /\ startResult = "ok")
        => /\ execState = "continuous"
           /\ stopCalls > 0
           /\ MergeCheckInterval(args) >= 0 => (interrupts > 0 /\ exitCode = Some(0))
           /\ (MergeCheckInterval(args) < 0 /\ interrupts = 0) => exitCode = Some(1)

\* C30 witness: the hold loop raised, the flag was reset, the run ended with 1
C30_Witness ==
    /\ prog = "windows_prevent_sleep" /\ Exited /\ startResult = "ok"
    /\ interrupts = 0 /\ execState = "continuous" /\ stopCalls = 2
    /\ exitCode = Some(1)

====
